---- MODULE Spec2Model ----
(***************************************************************************)
(* A model of the EVI-Pro-Lite example scripts:                            *)
(*   "mp"       example_ny_ev_proj_mp.py  (multi-key dispatcher)           *)
(*   "single"   example_ny_ev_proj.py     (single-key dispatcher)          *)
(*   "basic"    ny_ev_proj.py             (one call of the model)          *)
(*   "download" NYS_population_download.py                                 *)
(* One process runs one script.  The main thread is followed by pc; the    *)
(* tasks handed to the ThreadPoolExecutor are followed one by one.         *)
(*                                                                         *)
(* Strings are sequences of one-character strings, so that len(), strip()  *)
(* and the iteration of a file by lines are computed, not assumed.         *)
(* Numbers: fleet sizes and power values are integers; a scale factor is   *)
(* the exact fraction num/den the float division forms.  The fleet sizes   *)
(* and power values drawn make every product exact in binary floating      *)
(* point as well (factors 1/2, 1, 2; values multiples of 100).             *)
(***************************************************************************)
EXTENDS Integers, Sequences, FiniteSets, TLC

VARIABLES
    script,          \* which script this process runs
    inputDirExists,  \* os.path.exists(input_dir) when the script starts
    keyFile,         \* nrel_api_key.txt: [exists, text]
    stdin,           \* what input() will meet: [eof, line]
    nCounties,       \* number of counties (columns of the temperature table) / urls
    yearPresent,     \* the vehicle table has a column for the target year
    fleet,           \* vehicle_by_county_proj_year[county], by county index; a
                     \* county the vehicle table lacks is not in its domain
    fails,           \* the counties (urls) whose external call raises
    pc,              \* position of the main thread
    exitCode,        \* process exit status once it has ended, -1 before
    log,             \* records logged by the main thread, in order
    dirsMade,        \* output/figure (data) directories exist
    api_key_list,    \* the credential pool of the multi-key script
    api_key,         \* the credential of the single-key scripts
    county_names,    \* per county: its name, parsed from the temperature table
    scenario_csv_list, \* per county: the scenario table, a sequence of rows
    tasks,           \* per submitted work item: the future and its task
    nSubmitted,      \* number of executor.submit calls made
    numThreads,      \* worker threads the executor has started
    yieldq,          \* futures as_completed has still to yield, in order
    nYielded,        \* the i of enumerate(as_completed(futures))
    files,           \* artifacts written: file name -> content
    warned,          \* (county, scenario) pairs county_run warned about
    usedKey,         \* credentials handed to the external model
    sinkLog,         \* what the result loop did, in order: tables read, figures
                     \* plotted and tables saved, with their file names
    session          \* thread_local.session of each worker thread, 0 if unset

vars == << script, inputDirExists, keyFile, stdin, nCounties, yearPresent, fleet,
           fails, pc, exitCode, log, dirsMade, api_key_list, api_key, county_names,
           scenario_csv_list, tasks, nSubmitted, numThreads, yieldq, nYielded,
           files, warned, usedKey, sinkLog, session >>

envVars == << script, inputDirExists, keyFile, stdin, nCounties, yearPresent, fleet,
              fails >>

----------------------------------------------------------------------------
(* Bounds of the model.                                                    *)

\* most work items of a run of the dispatcher
MaxItems == 3
\* work items of a run that loads the dispatcher's pool beyond its limit
PoolItems == 11
\* urls of a run of the downloader
NumSites == 6
\* rows of a result table
RawLen == 2

----------------------------------------------------------------------------
(* Program constants.                                                      *)

\* len(api_key) == 40
KeyLen == 40
\* ThreadPoolExecutor(max_workers=10)
MaxWorkers == 10
\* ThreadPoolExecutor(max_workers=5)
MaxDownloadWorkers == 5
\* if row['fleet_size'] < 30000
SmallFleet == 30000
\* scenario_csv.loc[scenario, 'fleet_size'] = 10000 ; row['fleet_size'] / 10000
NominalFleet == 10000
\* [...] * 2 : the scenario table has two rows
NumScen == 2
\* for m in range(12, 13)
Month == 12

----------------------------------------------------------------------------
(* Strings.                                                                *)

Rep(c, n) == [i \in 1..n |-> c]

NL == <<"\n">>
SP == <<" ">>

IsSpace(c) == c \in {" ", "\n", "\t", "\r"}

RECURSIVE LStrip(_)
LStrip(s) == IF s # <<>> /\ IsSpace(Head(s)) THEN LStrip(Tail(s)) ELSE s

RECURSIVE RStrip(_)
RStrip(s) ==
    IF s # <<>> /\ IsSpace(s[Len(s)]) THEN RStrip(SubSeq(s, 1, Len(s) - 1)) ELSE s

\* str.strip()
Strip(s) == RStrip(LStrip(s))

\* position of the first "\n" of s, 0 if none
RECURSIVE FirstNL(_, _)
FirstNL(s, i) ==
    IF i > Len(s) THEN 0 ELSE IF s[i] = "\n" THEN i ELSE FirstNL(s, i + 1)

\* for line in f: the lines of the text, each with its terminator
RECURSIVE FileLines(_)
FileLines(text) ==
    IF text = <<>> THEN <<>>
    ELSE LET n == FirstNL(text, 1) IN
         IF n = 0 THEN << text >>
         ELSE << SubSeq(text, 1, n) >> \o FileLines(SubSeq(text, n + 1, Len(text)))

DEMO_KEY == << "D", "E", "M", "O", "_", "K", "E", "Y" >>

Digits == << "0", "1", "2", "3", "4", "5", "6", "7", "8", "9" >>

\* str(n), n >= 0
RECURSIVE Str(_)
Str(n) == IF n < 10 THEN << Digits[n + 1] >> ELSE Str(n \div 10) \o << Digits[(n % 10) + 1] >>

\* s.replace(' ', '_')
Replace(s) == [i \in 1 .. Len(s) |-> IF s[i] = " " THEN "_" ELSE s[i]]

\* position of the first c of s at or after i, 0 if none
RECURSIVE FirstOf(_, _, _)
FirstOf(c, s, i) ==
    IF i > Len(s) THEN 0 ELSE IF s[i] = c THEN i ELSE FirstOf(c, s, i + 1)

\* position of the last c of s at or before i, 0 if none
RECURSIVE LastOf(_, _, _)
LastOf(c, s, i) ==
    IF i < 1 THEN 0 ELSE IF s[i] = c THEN i ELSE LastOf(c, s, i - 1)

\* s.split(',')[1] of a text that holds a comma
SecondField(s) ==
    LET a == FirstOf(",", s, 1)
        b == FirstOf(",", s, a + 1)
    IN SubSeq(s, a + 1, IF b = 0 THEN Len(s) ELSE b - 1)

\* s.split('=')[-1]
LastField(s) == SubSeq(s, LastOf("=", s, Len(s)) + 1, Len(s))

----------------------------------------------------------------------------
(* Inputs.                                                                 *)

KeyA == Rep("a", KeyLen)
KeyB == Rep("b", KeyLen)
KeyC == Rep("c", KeyLen)
ShortKey == Rep("s", KeyLen - 1)
LongKey == Rep("l", KeyLen + 1)

NoFile == [exists |-> FALSE, text |-> <<>>]
File(t) == [exists |-> TRUE, text |-> t]

\* the key files tried
KeyFiles ==
    { NoFile,
      File(KeyA \o NL),                          \* one key on a line
      File(KeyA),                                \* one key, no line end
      File(KeyA \o NL \o KeyB \o NL),            \* two keys
      File(ShortKey \o NL \o KeyB \o NL),        \* a bad line, then a key
      File(ShortKey \o NL \o LongKey \o NL),     \* bad lines only
      File(<<>>),                                \* an empty file
      File(KeyA \o NL \o NL),                    \* a key and a blank line
      File(SP \o KeyB \o SP \o NL) }             \* a key with blanks around it

TwoKeys == File(KeyA \o NL \o KeyB \o NL)

\* the key files of the runs that load the pool: one, two and three keys
PoolKeyFiles == { File(KeyA \o NL), TwoKeys, File(KeyA \o NL \o KeyB \o NL \o KeyC \o NL) }

Closed == [eof |-> TRUE, line |-> <<>>]
Typed(t) == [eof |-> FALSE, line |-> t]

\* what the terminal gives input()
Stdins == { Closed, Typed(KeyC), Typed(ShortKey) }

\* the fleet sizes tried
FleetSizes == { 5000, 10000, 20000, 30000, 40000 }

Counties == 0 .. (nCounties - 1)

\* the column of county k in the temperature table
ColumnLabel(k) ==
    CASE k = 0 -> << "N", "Y", ",", " ", "N", "e", "w", " ", "Y", "o", "r", "k", " ", "C", "o", "u", "n", "t", "y" >>
      [] k = 1 -> << "N", "Y", ",", " ", "A", "l", "b", "a", "n", "y", " ", "C", "o", "u", "n", "t", "y" >>
      [] k = 2 -> << "N", "Y", ",", " ", "S", "t", " ", "L", "a", "w", "r", "e", "n", "c", "e", " ", "C", "o", "u", "n", "t", "y", ",", "3", "6", "0", "8", "9" >>
      [] OTHER -> << "N", "Y", ",", " ", "C", "o", "u", "n", "t", "y", " " >> \o Str(k)

\* county.split(',')[1], then county.strip()
CountyName(k) == Strip(SecondField(ColumnLabel(k)))

\* the fleet of county k in the runs that vary something else
DefaultFleet(k) == IF k = 0 THEN 5000 ELSE IF k = 1 THEN 40000 ELSE 20000

----------------------------------------------------------------------------
(* Numbers and tables.                                                     *)

PowerCols == { "home_l1", "home_l2", "work_l1", "work_l2", "public_l2", "public_l3" }
Cols == PowerCols \cup { "time", "temp_c" }

ColNo(c) ==
    CASE c = "home_l1" -> 1 [] c = "home_l2" -> 2 [] c = "work_l1" -> 3
      [] c = "work_l2" -> 4 [] c = "public_l2" -> 5 [] c = "public_l3" -> 6
      [] OTHER -> 0

\* the float 1.0 of np.ones
One == [num |-> 1, den |-> 1]
\* a / b as the float division forms it
Div(a, b) == [num |-> a, den |-> b]
\* f != 1
NotOne(f) == f.num # f.den
\* v * f
Times(v, f) == (v * f.num) \div f.den

\* What the external model answers for scenario s of county k: a table with a
\* time index (minutes), the six power columns and a column that is no power.
RawTable(k, s) ==
    [c \in Cols |->
        IF c = "time" THEN [t \in 1..RawLen |-> 15 * (t - 1)]
        ELSE IF c = "temp_c" THEN [t \in 1..RawLen |-> 10 + t + k]
        ELSE [t \in 1..RawLen |-> 100 * t * (ColNo(c) + s + k)]]

\* temp_run(scenario_csv, temp_csv, api_key, county=county): scenario -> table
RawResult(k) == [s \in 0 .. (NumScen - 1) |-> RawTable(k, s)]

----------------------------------------------------------------------------
(* Logging of the main thread.                                             *)

Entry(level, msg) == [level |-> level, msg |-> msg, arg |-> <<>>]
EntryArg(level, msg, arg) == [level |-> level, msg |-> msg, arg |-> arg]

----------------------------------------------------------------------------
(* Directory set-up.                                                       *)

\* example_ny_ev_proj_mp.py 78-96, example_ny_ev_proj.py 57-75
CheckInputDir ==
    /\ script \in {"mp", "single"}
    /\ pc = "start"
    /\ IF ~inputDirExists
       THEN /\ log' = Append(log, Entry("CRITICAL", "Input directory does not exist"))
            \* sys.exit() without an argument: exit status 0
            /\ pc' = "exited"
            /\ exitCode' = 0
            /\ UNCHANGED dirsMade
       ELSE /\ dirsMade' = TRUE
            /\ log' = Append(log, Entry("INFO", "Input directory"))
            /\ pc' = "keys"
            /\ UNCHANGED exitCode
    /\ UNCHANGED << envVars, county_names, sinkLog, session, api_key_list,
                    api_key, scenario_csv_list, tasks, nSubmitted, numThreads,
                    yieldq, nYielded, files, warned, usedKey >>

----------------------------------------------------------------------------
(* API key set-up.                                                         *)

\* ValidLine with the length test left out (a faulty variant, to test C7)
ValidLineAnyLength(line) == Strip(line) # <<>>

\* if line.strip() and len(line.strip()) == 40
ValidLine(line) == Strip(line) # <<>> /\ Len(Strip(line)) = KeyLen

RECURSIVE ReadKeys(_)
\* the loop over the lines of the file: the keys appended, in order
ReadKeys(lines) ==
    IF lines = <<>> THEN <<>>
    ELSE (IF ValidLine(Head(lines)) THEN << Strip(Head(lines)) >> ELSE <<>>)
         \o ReadKeys(Tail(lines))

RECURSIVE ReadWarnings(_)
\* the loop over the lines of the file: the warnings logged, in order
ReadWarnings(lines) ==
    IF lines = <<>> THEN <<>>
    ELSE (IF ValidLine(Head(lines)) THEN <<>>
          ELSE << EntryArg("WARNING", "Invalid API key", Strip(Head(lines))) >>)
         \o ReadWarnings(Tail(lines))

\* api_key = input('Enter API key: ') and the check that follows it, with the
\* log so far: EOFError ends the process with a traceback (status 1)
EnterKey(sofar) ==
    IF stdin.eof
    THEN /\ pc' = "crashed"
         /\ exitCode' = 1
         /\ log' = sofar
         /\ api_key_list' = <<>>
    ELSE IF Len(stdin.line) # KeyLen
    THEN /\ log' = Append(sofar, Entry("CRITICAL", "Invalid API key"))
         /\ pc' = "exited"
         /\ exitCode' = 0
         /\ api_key_list' = <<>>
    ELSE /\ api_key_list' = << stdin.line >>
         /\ log' = sofar
         /\ pc' = "assemble"
         /\ UNCHANGED exitCode

\* example_ny_ev_proj_mp.py 100-135
SetupKeysMp ==
    /\ script = "mp"
    /\ pc = "keys"
    /\ IF keyFile.exists
       THEN LET lines == FileLines(keyFile.text)
                keys == ReadKeys(lines)
                sofar == log \o ReadWarnings(lines)
            IN IF Len(keys) > 0
               THEN /\ api_key_list' = keys
                    /\ log' = Append(sofar, Entry("INFO", "API keys found in file"))
                    /\ pc' = "assemble"
                    /\ UNCHANGED exitCode
               ELSE EnterKey(Append(sofar, Entry("WARNING", "No valid API key found in file")))
       ELSE EnterKey(Append(log, Entry("WARNING", "API key not found in file")))
    /\ UNCHANGED << envVars, county_names, sinkLog, session, dirsMade, api_key,
                    scenario_csv_list, tasks, nSubmitted, numThreads, yieldq,
                    nYielded, files, warned, usedKey >>

\* example_ny_ev_proj.py 79-93, ny_ev_proj.py 12-26
SetupKeySingle ==
    /\ script \in {"single", "basic"}
    /\ pc = "keys"
    /\ IF ~keyFile.exists /\ stdin.eof
       THEN \* input() raises EOFError
            /\ pc' = "crashed"
            /\ exitCode' = 1
            /\ log' = Append(log, Entry("WARNING", "API key not found in file"))
            /\ UNCHANGED api_key
       ELSE LET read == IF keyFile.exists THEN keyFile.text ELSE stdin.line
                first == IF keyFile.exists
                         THEN Entry("INFO", "API key found in file")
                         ELSE Entry("WARNING", "API key not found in file")
                bad == Len(read) # KeyLen
            IN /\ api_key' = IF bad THEN DEMO_KEY ELSE read
               \* ny_ev_proj.py builds a Warning object and logs nothing
               /\ log' = IF bad /\ script = "single"
                         THEN log \o << first, Entry("WARNING", "API key is not valid") >>
                         ELSE Append(log, first)
               /\ pc' = IF script = "single" THEN "assemble" ELSE "run"
               /\ UNCHANGED exitCode
    /\ UNCHANGED << envVars, county_names, sinkLog, session, dirsMade,
                    api_key_list, scenario_csv_list, tasks, nSubmitted,
                    numThreads, yieldq, nYielded, files, warned, usedKey >>

----------------------------------------------------------------------------
(* Input assembly.                                                         *)

Scens == 0 .. (NumScen - 1)

\* scenario_dict / pd.DataFrame(scenario_dict): every row holds the county's fleet
ScenarioTable(k) == [s \in Scens |-> [fleet_size |-> fleet[k]]]

\* the first county of the temperature table that the vehicle table lacks,
\* nCounties if it has them all
FirstMissing ==
    IF Counties \subseteq DOMAIN fleet THEN nCounties
    ELSE CHOOSE k \in Counties \ DOMAIN fleet : \A j \in Counties \ DOMAIN fleet : k <= j

\* a KeyError that nothing catches goes on as if the table had been complete
\* (a faulty variant, to test C13)
AfterKeyErrorGoesOn == "submit"

\* a KeyError that nothing catches ends the process with a traceback
AfterKeyError == "crashed"

\* the scenario files of the counties below n
ScenarioFiles(n) ==
    [f \in { <<"scenarios", k, 0>> : k \in 0 .. (n - 1) } |->
        [of |-> f[2], table |-> ScenarioTable(f[2])]]

\* example_ny_ev_proj_mp.py 139-207, example_ny_ev_proj.py 97-165.
\* vehicle_by_county_proj[str(year)] raises KeyError if the table has no column
\* for the year.  Then the tables of every county are built, and each scenario
\* table is saved, before any submit; vehicle_by_county_proj_year[county]
\* raises KeyError at the first county the table lacks.
Assemble ==
    /\ script \in {"mp", "single"}
    /\ pc = "assemble"
    /\ IF ~yearPresent
       THEN /\ pc' = AfterKeyError
            /\ exitCode' = IF AfterKeyError = "crashed" THEN 1 ELSE exitCode
            /\ UNCHANGED << county_names, scenario_csv_list, files >>
       ELSE IF FirstMissing < nCounties
       THEN /\ county_names' = [k \in Counties |-> CountyName(k)]
            /\ scenario_csv_list' = [k \in 0 .. (FirstMissing - 1) |-> ScenarioTable(k)]
            /\ files' = ScenarioFiles(FirstMissing)
            /\ pc' = AfterKeyError
            /\ exitCode' = IF AfterKeyError = "crashed" THEN 1 ELSE exitCode
       ELSE /\ county_names' = [k \in Counties |-> CountyName(k)]
            /\ scenario_csv_list' = [k \in Counties |-> ScenarioTable(k)]
            /\ files' = ScenarioFiles(nCounties)
            /\ pc' = "submit"
            /\ UNCHANGED exitCode
    /\ UNCHANGED << envVars, sinkLog, session, log, dirsMade, api_key_list,
                    api_key, tasks, nSubmitted, numThreads, yieldq, nYielded,
                    warned, usedKey >>

----------------------------------------------------------------------------
(* The executor and its tasks.                                             *)

NoTask == [state |-> "none", key |-> <<>>, calls |-> 0, handed |-> 0,
           passed |-> <<>>, factor |-> <<>>, result |-> <<>>,
           thread |-> 0, session |-> 0]

Submitted == { k \in Counties : tasks[k].state # "none" }
Queued == { k \in Counties : tasks[k].state = "queued" }
\* taken from the queue by a worker thread that has not yet made the call
Taken == { k \in Counties : tasks[k].state = "taken" }
\* in the call of the external model (in the request)
Running == { k \in Counties : tasks[k].state = "running" }
Finished == { k \in Counties : tasks[k].state \in {"done", "failed"} }

\* max_workers of the script's executor
WorkerLimit == IF script = "download" THEN MaxDownloadWorkers ELSE MaxWorkers

\* ThreadsAfterSubmit without the limit: a thread per submit (a faulty variant,
\* to test C10)
ThreadsAfterSubmitUnbounded == numThreads + 1

\* executor.submit starts a worker thread while fewer than max_workers exist
ThreadsAfterSubmit == IF numThreads < WorkerLimit THEN numThreads + 1 ELSE numThreads

\* a worker thread is free to take the next work item
FreeWorker == Cardinality(Taken \cup Running) < numThreads

\* NextQueued with a retry: a task whose call failed is taken again (a faulty
\* variant, to test C2)
NextQueuedOrFailed(k) ==
    \/ k \in Queued /\ \A j \in Queued : k <= j
    \/ tasks[k].state = "failed"

\* the work queue is first in, first out
NextQueued(k) == k \in Queued /\ \A j \in Queued : k <= j

\* KeyFor rotating by the number of tasks finished instead of the submission
\* index (a faulty variant, to test C6)
KeyForByCompletion(i) ==
    IF script = "mp" THEN api_key_list[(Cardinality(Finished) % Len(api_key_list)) + 1]
    ELSE api_key

\* KeyFor without the rotation: every task gets the first key (a faulty
\* variant, to test C19)
KeyForFirst(i) == IF script = "mp" THEN api_key_list[1] ELSE api_key

\* api_key_index = i % n_api_key ; api_key = api_key_list[api_key_index]
KeyFor(i) ==
    IF script = "mp" THEN api_key_list[(i % Len(api_key_list)) + 1] ELSE api_key

\* example_ny_ev_proj_mp.py 213-219, example_ny_ev_proj.py 169-170
SubmitCounty ==
    /\ script \in {"mp", "single"}
    /\ pc = "submit"
    /\ nSubmitted < nCounties
    /\ tasks' = [tasks EXCEPT ![nSubmitted] =
                    [NoTask EXCEPT !.state = "queued", !.key = KeyFor(nSubmitted)]]
    /\ numThreads' = ThreadsAfterSubmit
    /\ nSubmitted' = nSubmitted + 1
    /\ pc' = IF nSubmitted + 1 = nCounties THEN "collect" ELSE "submit"
    /\ UNCHANGED << envVars, county_names, sinkLog, session, exitCode, log,
                    dirsMade, api_key_list, api_key, scenario_csv_list, yieldq,
                    nYielded, files, warned, usedKey >>

\* IsSmall with <= for <: the threshold itself counts as small (a faulty
\* variant, to test C4)
IsSmallOrEqual(row) == row.fleet_size <= SmallFleet

\* if row['fleet_size'] < 30000
IsSmall(row) == row.fleet_size < SmallFleet

\* Substituted leaving the row as it is (a faulty variant, to test C15)
SubstitutedNever(row) == row

\* scenario_csv.loc[scenario, 'fleet_size'] = 10000
Substituted(row) == IF IsSmall(row) THEN [row EXCEPT !.fleet_size = NominalFleet] ELSE row

\* ScalingFactor reading the fleet size after its replacement (a faulty
\* variant, to test C5)
ScalingFactorAfterReplacement(row) ==
    IF row.fleet_size < SmallFleet THEN Div(NominalFleet, NominalFleet) ELSE One

\* scaling_factor[scenario] = row['fleet_size'] / 10000, row being the copy
\* iterrows() made before the substitution; np.ones elsewhere
ScalingFactor(row) == IF IsSmall(row) THEN Div(row.fleet_size, NominalFleet) ELSE One

\* ScaledTable multiplying every column, not the six named ones (a faulty
\* variant, to test C14)
ScaledTableEveryColumn(tbl, f) ==
    [c \in DOMAIN tbl |-> [t \in DOMAIN tbl[c] |-> Times(tbl[c][t], f)]]

\* final_result[scenario][six columns] * scaling_factor[scenario]
ScaledTable(tbl, f) ==
    [c \in DOMAIN tbl |->
        IF c \in PowerCols THEN [t \in DOMAIN tbl[c] |-> Times(tbl[c][t], f)]
        ELSE tbl[c]]

\* the loop of county_run that scales the results
Scaled(result, factor) ==
    [s \in DOMAIN result |->
        IF NotOne(factor[s]) THEN ScaledTable(result[s], factor[s]) ELSE result[s]]

\* county_run from the loop over the rows to the call of temp_run:
\* example_ny_ev_proj_mp.py 45-56 (the fleet sizes are replaced in the caller's
\* table), example_ny_ev_proj.py 42-43 (no replacement)
CallTempRun(k) ==
    LET tbl == scenario_csv_list[k]
        small == { s \in Scens : IsSmall(tbl[s]) }
        sent == IF script = "mp" THEN [s \in Scens |-> Substituted(tbl[s])] ELSE tbl
    IN /\ scenario_csv_list' = [scenario_csv_list EXCEPT ![k] = sent]
       /\ warned' = IF script = "mp" THEN warned \cup { <<k, s>> : s \in small } ELSE warned
       /\ tasks' = [tasks EXCEPT ![k] =
                       [@ EXCEPT !.state = "running",
                                 !.calls = @ + 1,
                                 !.passed = sent,
                                 !.factor = IF script = "mp"
                                            THEN [s \in Scens |-> ScalingFactor(tbl[s])]
                                            ELSE [s \in Scens |-> One]]]
       /\ usedKey' = usedKey \cup { tasks[k].key }

\* A worker thread takes the next work item and runs county_run up to its call
\* of temp_run, with no step of another thread in between
\* (example_ny_ev_proj_mp.py 38-56, example_ny_ev_proj.py 35-43)
StartCounty(k) ==
    /\ script \in {"mp", "single"}
    /\ NextQueued(k)
    /\ FreeWorker
    /\ CallTempRun(k)
    /\ UNCHANGED << envVars, county_names, sinkLog, session, pc, exitCode, log,
                    dirsMade, api_key_list, api_key, nSubmitted, numThreads,
                    yieldq, nYielded, files >>

\* A worker thread takes the next work item and enters county_run
\* (example_ny_ev_proj_mp.py 38-44, example_ny_ev_proj.py 35-39) ...
TakeCounty(k) ==
    /\ script \in {"mp", "single"}
    /\ NextQueued(k)
    /\ FreeWorker
    /\ tasks' = [tasks EXCEPT ![k] = [@ EXCEPT !.state = "taken"]]
    /\ UNCHANGED << envVars, county_names, sinkLog, session, pc, exitCode, log,
                    dirsMade, api_key_list, api_key, scenario_csv_list,
                    nSubmitted, numThreads, yieldq, nYielded, files, warned,
                    usedKey >>

\* ... and, other threads having run or not, goes on to the call of temp_run
PrepareCounty(k) ==
    /\ script \in {"mp", "single"}
    /\ k \in Taken
    /\ CallTempRun(k)
    /\ UNCHANGED << envVars, county_names, sinkLog, session, pc, exitCode, log,
                    dirsMade, api_key_list, api_key, nSubmitted, numThreads,
                    yieldq, nYielded, files >>

\* Announce without the waiter's list: a future that finishes after
\* as_completed was entered is never yielded (a faulty variant, to test C11)
AnnounceLost(k) == yieldq

\* once as_completed has installed its waiter, a future that finishes is put on
\* the waiter's list
Announce(k) == IF pc = "consume" THEN Append(yieldq, k) ELSE yieldq

\* temp_run returns: county_run scales the result and returns it
\* (example_ny_ev_proj_mp.py 56-65, example_ny_ev_proj.py 43-45)
TempRunReturns(k) ==
    /\ script \in {"mp", "single"}
    /\ k \in Running
    /\ k \notin fails
    /\ tasks' = [tasks EXCEPT ![k] =
                    [@ EXCEPT !.state = "done",
                              !.result = [of |-> k,
                                          scen |-> Scaled(RawResult(k), tasks[k].factor)]]]
    /\ yieldq' = Announce(k)
    /\ UNCHANGED << envVars, county_names, sinkLog, session, pc, exitCode, log,
                    dirsMade, api_key_list, api_key, scenario_csv_list,
                    nSubmitted, numThreads, nYielded, files, warned, usedKey >>

\* temp_run raises: county_run has no handler, the future holds the exception
TempRunRaises(k) ==
    /\ script \in {"mp", "single"}
    /\ k \in Running
    /\ k \in fails
    /\ tasks' = [tasks EXCEPT ![k] = [@ EXCEPT !.state = "failed"]]
    /\ yieldq' = Announce(k)
    /\ UNCHANGED << envVars, county_names, sinkLog, session, pc, exitCode, log,
                    dirsMade, api_key_list, api_key, scenario_csv_list,
                    nSubmitted, numThreads, nYielded, files, warned, usedKey >>

----------------------------------------------------------------------------
(* The result loop of the main thread.                                     *)

\* the orders in which the members of S can be listed
Orders(S) ==
    { q \in [1 .. Cardinality(S) -> S] : \A a, b \in DOMAIN q : q[a] = q[b] => a = b }

\* as_completed(futures) is entered: the futures already finished are yielded
\* first, in the order of a set; the others as they finish
AsCompleted ==
    /\ script \in {"mp", "single"}
    /\ pc = "collect"
    /\ \E q \in Orders(Finished) : yieldq' = q
    /\ pc' = "consume"
    /\ UNCHANGED << envVars, county_names, sinkLog, session, exitCode, log,
                    dirsMade, api_key_list, api_key, scenario_csv_list, tasks,
                    nSubmitted, numThreads, nYielded, files, warned, usedKey >>

\* county = county_names[i] ; scenario_csv = scenario_csv_list[i], i counting the
\* futures yielded so far; j is the future that was yielded
SinkCounty(i, j) == i

\* ArtifactName without the scenario index (a faulty variant, to test C12)
ArtifactNameNoScenario(county, scenario, ext) ==
    Replace(county \o (IF script = "mp" THEN << "_", "m", "o", "n", "t", "h" >> \o Str(Month) ELSE <<>>)
              \o << "_", "s", "c", "e", "n", "_", "t", "e", "m", "p", "_", "g", "r", "i", "d", "L", "o", "a", "d", "." >> \o ext)

\* f'{county}_month{m}_scen{str(scenario)}_temp_gridLoad.png'.replace(' ', '_')
\* (example_ny_ev_proj.py: without _month{m})
ArtifactName(county, scenario, ext) ==
    Replace(county \o (IF script = "mp" THEN << "_", "m", "o", "n", "t", "h" >> \o Str(Month) ELSE <<>>)
              \o << "_", "s", "c", "e", "n" >> \o Str(scenario) \o << "_", "t", "e", "m", "p", "_", "g", "r", "i", "d", "L", "o", "a", "d", "." >> \o ext)

PNG == << "p", "n", "g" >>
CSV == << "c", "s", "v" >>

\* What one turn of the result loop does with result r, read as county c: the
\* county's scenario table is taken, and for each of its rows, in order, the
\* figure is plotted and the table saved.
SinkSteps(c, r) ==
    << [op |-> "read", county |-> c, task |-> tasks[c].state] >> \o
    [i \in 1 .. 2 * Cardinality(DOMAIN scenario_csv_list[c]) |->
        LET sc == (i - 1) \div 2
        IN IF i % 2 = 1
           THEN [op |-> "plot", name |-> ArtifactName(county_names[c], sc, PNG),
                 county |-> c, scenario |-> sc, of |-> r.of]
           ELSE [op |-> "save", name |-> ArtifactName(county_names[c], sc, CSV),
                 county |-> c, scenario |-> sc, of |-> r.of]]

\* the names of the artifacts of one county: a figure and a table per scenario
Artifacts(c) == { <<kind, c, s>> : kind \in {"png", "csv"}, s \in DOMAIN scenario_csv_list[c] }

\* the files after the artifacts of county c have been written from result r
Written(c, r) ==
    [n \in DOMAIN files \cup Artifacts(c) |->
        IF n \in Artifacts(c) THEN [of |-> r.of, table |-> r.scen[n[3]]] ELSE files[n]]

\* One turn of the loop over as_completed: future.result(), then the figures and
\* tables of the county (example_ny_ev_proj_mp.py 221-241, example_ny_ev_proj.py
\* 172-187).  A failed future re-raises its exception in the main thread, which
\* leaves the with block: the executor is shut down, waiting for every task.
Consume ==
    /\ script \in {"mp", "single"}
    /\ pc = "consume"
    /\ yieldq # <<>>
    /\ LET j == Head(yieldq)
           c == SinkCounty(nYielded, j)
       IN IF tasks[j].state = "failed"
          THEN /\ pc' = "unwinding"
               /\ UNCHANGED << tasks, files, nYielded, log, sinkLog >>
          ELSE /\ files' = Written(c, tasks[j].result)
               /\ sinkLog' = sinkLog \o SinkSteps(c, tasks[j].result)
               /\ tasks' = [tasks EXCEPT ![j] = [@ EXCEPT !.handed = @ + 1]]
               /\ nYielded' = nYielded + 1
               /\ log' = Append(log, EntryArg("INFO", "Finished running for county", <<c>>))
               /\ pc' = "consume"
    /\ yieldq' = Tail(yieldq)
    /\ UNCHANGED << envVars, county_names, session, exitCode, dirsMade,
                    api_key_list, api_key, scenario_csv_list, nSubmitted,
                    numThreads, warned, usedKey >>

\* every future has been yielded: the with block ends and the script with it
Finish ==
    /\ script \in {"mp", "single"}
    /\ pc = "consume"
    /\ nYielded = nCounties
    /\ log' = Append(log, Entry("INFO", "Finished running the model"))
    /\ pc' = "done"
    /\ exitCode' = 0
    /\ UNCHANGED << envVars, county_names, sinkLog, session, dirsMade,
                    api_key_list, api_key, scenario_csv_list, tasks, nSubmitted,
                    numThreads, yieldq, nYielded, files, warned, usedKey >>

\* shutdown(wait=True) has returned: the exception ends the process
Unwind ==
    /\ script \in {"mp", "single"}
    /\ pc = "unwinding"
    /\ Finished = Counties
    /\ pc' = "crashed"
    /\ exitCode' = 1
    /\ UNCHANGED << envVars, county_names, sinkLog, session, log, dirsMade,
                    api_key_list, api_key, scenario_csv_list, tasks, nSubmitted,
                    numThreads, yieldq, nYielded, files, warned, usedKey >>

----------------------------------------------------------------------------
(* ny_ev_proj.py: one call of the model.                                   *)

\* ny_ev_proj.py 45-48
RunBasic ==
    /\ script = "basic"
    /\ pc = "run"
    /\ usedKey' = usedKey \cup { api_key }
    /\ pc' = "done"
    /\ exitCode' = 0
    /\ UNCHANGED << envVars, county_names, sinkLog, session, log, dirsMade,
                    api_key_list, api_key, scenario_csv_list, tasks, nSubmitted,
                    numThreads, yieldq, nYielded, files, warned >>

----------------------------------------------------------------------------
(* NYS_population_download.py.                                             *)

\* SiteId counting every id, not every second one (a faulty variant, to test
\* C16)
SiteIdEvery(k) == k + 1

\* range(1, 125, 2): the county id of the k-th url
SiteId(k) == 2 * k + 1

\* len(range(1, 125, 2))
NumUrls == (125 - 1 + 2 - 1) \div 2

base_url == << "h", "t", "t", "p", "s", ":", "/", "/", "p", "a", "d", ".", "h", "u", "m", "a", "n", ".", "c", "o", "r", "n", "e", "l", "l", ".", "e", "d", "u", "/", "c", "o", "u", "n", "t", "i", "e", "s", "/", "e", "x", "p", "p", "r", "o", "j", "d", "a", "t", "a", ".", "c", "f", "m", "?" >>

\* f'{base_url}+county={id}'
Url(k) == base_url \o << "+", "c", "o", "u", "n", "t", "y", "=" >> \o Str(SiteId(k))

\* f"{url.split('=')[-1]}.xlsx"
XlsxName(url) == LastField(url) \o << ".", "x", "l", "s", "x" >>

\* the worker threads that run no task
IdleThreads == { t \in 1 .. numThreads : \A k \in Running : tasks[k].thread # t }

\* The idle threads one of which takes the next url: any that has run a task
\* before, or one that has not.  The threads that have not yet run a task are
\* alike, and the first of them stands for them all.
Pickable ==
    { t \in IdleThreads :
        session[t] # 0 \/ \A u \in IdleThreads : session[u] = 0 => t <= u }

\* requests.Session(): a session no thread has
NewSession == 1 + Cardinality({ t \in DOMAIN session : session[t] # 0 })

\* get_session with one session for the module instead of one per thread (a
\* faulty variant, to test C17)
GetSessionShared(t) == [u \in DOMAIN session |-> 1]

\* get_session(), called in thread t: thread_local.session is set if the thread
\* has none
GetSession(t) == IF session[t] = 0 THEN [session EXCEPT ![t] = NewSession] ELSE session

\* NYS_population_download.py 43-47
MakeDataDir ==
    /\ script = "download"
    /\ pc = "start"
    /\ dirsMade' = TRUE
    /\ pc' = "submit"
    /\ UNCHANGED << envVars, county_names, sinkLog, session, exitCode, log,
                    api_key_list, api_key, scenario_csv_list, tasks, nSubmitted,
                    numThreads, yieldq, nYielded, files, warned, usedKey >>

\* executor.map(download_site, sites) submits one call per url, in order; its
\* iterator is dropped, and the with block waits for the tasks
SubmitSite ==
    /\ script = "download"
    /\ pc = "submit"
    /\ nSubmitted < nCounties
    /\ tasks' = [tasks EXCEPT ![nSubmitted] = [NoTask EXCEPT !.state = "queued"]]
    /\ numThreads' = ThreadsAfterSubmit
    /\ nSubmitted' = nSubmitted + 1
    /\ pc' = IF nSubmitted + 1 = nCounties THEN "shutdown" ELSE "submit"
    /\ UNCHANGED << envVars, county_names, sinkLog, session, exitCode, log,
                    dirsMade, api_key_list, api_key, scenario_csv_list, yieldq,
                    nYielded, files, warned, usedKey >>

\* a worker thread that is idle takes the next url: download_site up to
\* session.get(url)
StartSite(k) ==
    /\ script = "download"
    /\ NextQueued(k)
    /\ \E t \in Pickable :
          /\ session' = GetSession(t)
          /\ tasks' = [tasks EXCEPT ![k] =
                          [@ EXCEPT !.state = "running", !.calls = @ + 1,
                                    !.thread = t, !.session = GetSession(t)[t]]]
    /\ UNCHANGED << envVars, county_names, sinkLog, pc, exitCode, log, dirsMade,
                    api_key_list, api_key, scenario_csv_list, nSubmitted,
                    numThreads, yieldq, nYielded, files, warned, usedKey >>

\* the response arrives and is written to {id}.xlsx
SiteReturns(k) ==
    /\ script = "download"
    /\ k \in Running
    /\ k \notin fails
    /\ files' = [n \in DOMAIN files \cup { <<"xlsx", SiteId(k), 0>> } |->
                    IF n = <<"xlsx", SiteId(k), 0>>
                    THEN [of |-> k, table |-> <<>>, name |-> XlsxName(Url(k))]
                    ELSE files[n]]
    /\ tasks' = [tasks EXCEPT ![k] = [@ EXCEPT !.state = "done"]]
    /\ UNCHANGED << envVars, county_names, sinkLog, session, pc, exitCode, log,
                    dirsMade, api_key_list, api_key, scenario_csv_list,
                    nSubmitted, numThreads, yieldq, nYielded, warned, usedKey >>

\* the request raises: the future keeps the exception, nobody asks for it
SiteRaises(k) ==
    /\ script = "download"
    /\ k \in Running
    /\ k \in fails
    /\ tasks' = [tasks EXCEPT ![k] = [@ EXCEPT !.state = "failed"]]
    /\ UNCHANGED << envVars, county_names, sinkLog, session, pc, exitCode, log,
                    dirsMade, api_key_list, api_key, scenario_csv_list,
                    nSubmitted, numThreads, yieldq, nYielded, files, warned,
                    usedKey >>

\* the with block of download_all_sites ends once every task has finished
DownloadDone ==
    /\ script = "download"
    /\ pc = "shutdown"
    /\ Finished = Counties
    /\ pc' = "done"
    /\ exitCode' = 0
    /\ UNCHANGED << envVars, county_names, sinkLog, session, log, dirsMade,
                    api_key_list, api_key, scenario_csv_list, tasks, nSubmitted,
                    numThreads, yieldq, nYielded, files, warned, usedKey >>

----------------------------------------------------------------------------
(* Specifications.                                                         *)

\* the state of a process that has just started, given its inputs
StartWith(sc, dir, kf, in, n, yr, fl, fs) ==
    /\ script = sc
    /\ yearPresent = yr
    /\ inputDirExists = dir
    /\ keyFile = kf
    /\ stdin = in
    /\ nCounties = n
    /\ fleet = fl
    /\ fails = fs
    /\ pc = IF sc = "basic" THEN "keys" ELSE "start"
    /\ exitCode = -1
    /\ log = <<>>
    /\ dirsMade = FALSE
    /\ api_key_list = <<>>
    /\ api_key = <<>>
    /\ county_names = <<>>
    /\ scenario_csv_list = <<>>
    /\ tasks = [k \in 0 .. (n - 1) |-> NoTask]
    /\ nSubmitted = 0
    /\ numThreads = 0
    /\ yieldq = <<>>
    /\ nYielded = 0
    /\ files = <<>>
    /\ warned = {}
    /\ usedKey = {}
    /\ sinkLog = <<>>
    /\ session = [t \in 1 .. MaxWorkers |-> 0]

\* the same, the vehicle table holding the target year
Start(sc, dir, kf, in, n, fl, fs) == StartWith(sc, dir, kf, in, n, TRUE, fl, fs)

DefaultFleets(n) == [k \in 0 .. (n - 1) |-> DefaultFleet(k)]

\* runs that vary the directories, the key file and the terminal
InitSetup ==
    \E sc \in {"mp", "single", "basic"}, dir \in BOOLEAN, kf \in KeyFiles, in \in Stdins :
        /\ sc = "basic" => dir
        /\ Start(sc, dir, kf, in, 2, DefaultFleets(2), {})

\* runs that vary the number of counties and the calls that fail
InitDispatch ==
    \E sc \in {"mp", "single"}, n \in 2 .. MaxItems :
        \E fs \in SUBSET (0 .. (n - 1)) :
            Start(sc, TRUE, TwoKeys, Closed, n, DefaultFleets(n), fs)

\* runs that vary the fleet sizes
InitFleet ==
    \E sc \in {"mp", "single"}, fl \in [0 .. 1 -> FleetSizes] :
        Start(sc, TRUE, TwoKeys, Closed, 2, fl, {})

\* runs of the downloader
InitDownload ==
    \E n \in 1 .. MaxItems :
        \E fs \in SUBSET (0 .. (n - 1)) :
            Start("download", TRUE, NoFile, Closed, n, DefaultFleets(n), fs)

\* runs that vary the vehicle table: the target year and the counties it holds
InitVehicles ==
    \E sc \in {"mp", "single"}, yr \in BOOLEAN, held \in SUBSET (0 .. (MaxItems - 1)) :
        StartWith(sc, TRUE, TwoKeys, Closed, MaxItems, yr,
                  [k \in held |-> DefaultFleet(k)], {})

Init == InitSetup \/ InitDispatch \/ InitFleet \/ InitVehicles \/ InitDownload

Next ==
    \/ CheckInputDir
    \/ SetupKeysMp
    \/ SetupKeySingle
    \/ Assemble
    \/ SubmitCounty
    \/ \E k \in Counties : TakeCounty(k)
    \/ \E k \in Counties : PrepareCounty(k)
    \/ \E k \in Counties : TempRunReturns(k)
    \/ \E k \in Counties : TempRunRaises(k)
    \/ AsCompleted
    \/ Consume
    \/ Finish
    \/ Unwind
    \/ RunBasic
    \/ MakeDataDir
    \/ SubmitSite
    \/ \E k \in Counties : StartSite(k)
    \/ \E k \in Counties : SiteReturns(k)
    \/ \E k \in Counties : SiteRaises(k)
    \/ DownloadDone

Spec == Init /\ [][Next]_vars

\* Runs that load the executors beyond their worker limits: the multi-key
\* script with two keys and the downloader; and runs of both dispatchers with
\* pools of one, two and three keys, over fewer counties.  In each kind of run
\* the call of the first work item fails.  The result loop of the main thread
\* starts and ends no task, and is left out: the main thread stops once every
\* work item has been submitted.
InitPool ==
    \/ Start("mp", TRUE, TwoKeys, Closed, PoolItems, DefaultFleets(PoolItems), {0})
    \/ \E kf \in PoolKeyFiles :
           Start("mp", TRUE, kf, Closed, 2 * MaxItems, DefaultFleets(2 * MaxItems), {})
    \/ Start("single", TRUE, TwoKeys, Closed, 2 * MaxItems, DefaultFleets(2 * MaxItems), {0})
    \/ Start("download", TRUE, NoFile, Closed, NumSites, DefaultFleets(NumSites), {0})

NextPool ==
    \/ CheckInputDir
    \/ SetupKeysMp
    \/ SetupKeySingle
    \/ Assemble
    \/ SubmitCounty
    \/ \E k \in Counties : StartCounty(k)
    \/ \E k \in Counties : TempRunReturns(k)
    \/ \E k \in Counties : TempRunRaises(k)
    \/ MakeDataDir
    \/ SubmitSite
    \/ \E k \in Counties : StartSite(k)
    \/ \E k \in Counties : SiteReturns(k)
    \/ \E k \in Counties : SiteRaises(k)
    \/ DownloadDone

SpecPool == InitPool /\ [][NextPool]_vars

\* the steps of the dispatcher from the first submit on: the main thread in its
\* two loops, and the worker threads
Dispatching ==
    \/ SubmitCounty
    \/ \E k \in Counties : TakeCounty(k)
    \/ \E k \in Counties : PrepareCounty(k)
    \/ \E k \in Counties : TempRunReturns(k)
    \/ \E k \in Counties : TempRunRaises(k)
    \/ AsCompleted
    \/ Consume
    \/ Finish
    \/ Unwind

\* Scheduling: while a thread of the dispatcher can take a step, a step is
\* taken.  The main thread goes on while it can; a worker thread that is free
\* takes the next work item; a call of the external model that was made comes
\* back, with a result or with an exception.  No step of a run can be undone,
\* so this is all the fairness a run needs to reach its end.
Fairness == WF_vars(Dispatching)

FairSpec == Init /\ [][Next]_vars /\ Fairness

----------------------------------------------------------------------------
(* The claims.                                                             *)

\* C1: every figure and table written under county c's name holds the result
\* of the task that was submitted for county c, whatever the completion order.
C1_PairedWithOwnCounty ==
    \A n \in DOMAIN files : n[1] \in {"png", "csv"} => files[n].of = n[2]

\* C2: one task per work item, one call of temp_run per task and no retry, also
\* after a failure; in a run without failures every result is handed to the
\* sink exactly once.
C2_OncePerWorkItem ==
    script \in {"mp", "single"} =>
        /\ nSubmitted = Cardinality(Submitted)
        /\ nSubmitted <= nCounties
        /\ pc \in {"collect", "consume", "unwinding", "done"} => Submitted = Counties
        /\ \A k \in Counties :
              /\ tasks[k].calls = IF tasks[k].state \in {"running", "done", "failed"} THEN 1 ELSE 0
              /\ tasks[k].handed <= 1
              /\ tasks[k].handed = 1 => tasks[k].state = "done"
        /\ (pc = "done" /\ fails = {}) =>
              /\ \A k \in Counties : tasks[k].handed = 1
              /\ nYielded = nCounties

\* C2 witness: a run of three counties has ended, every result handed over once,
\* the first result consumed not being that of the first county.
C2_Witness ==
    /\ script = "mp"
    /\ pc = "done"
    /\ nCounties = 3
    /\ \A k \in Counties : tasks[k].handed = 1 /\ tasks[k].calls = 1
    /\ files[<<"csv", 0, 0>>].of = 2

\* C3: a failed call does not abort the run: the main thread goes on, and when
\* the process has ended the result of every task that succeeded is written.
C3_FailureIsolated ==
    script \in {"mp", "single"} =>
        /\ pc \notin {"unwinding"}
        /\ nSubmitted > 0 => pc # "crashed"
        /\ pc \in {"done", "crashed"} =>
              \A k \in Counties :
                  tasks[k].state = "done" =>
                      \E n \in DOMAIN files : n[1] = "csv" /\ files[n].of = k

\* C4 as stated: a scenario whose requested fleet size is at least 10,000 is
\* passed on unchanged, has scale factor 1.0, and its six power columns are the
\* raw result.
C4_IdentityFromNominal ==
    script = "mp" =>
        \A k \in Counties : \A s \in Scens :
            (tasks[k].state \in {"running", "done"} /\ fleet[k] >= NominalFleet) =>
                /\ tasks[k].passed[s].fleet_size = fleet[k]
                /\ tasks[k].factor[s].num = tasks[k].factor[s].den
                /\ tasks[k].state = "done" =>
                      \A c \in PowerCols : tasks[k].result.scen[s][c] = RawTable(k, s)[c]

\* C4 as amended: a scenario whose requested fleet size is at least 30,000, or
\* exactly 10,000, is passed on unchanged, has scale factor 1.0, and its six
\* power columns are the raw result.
C4_IdentityFromThreshold ==
    script = "mp" =>
        \A k \in Counties : \A s \in Scens :
            (tasks[k].state \in {"running", "done"}
               /\ (fleet[k] >= 30000 \/ fleet[k] = 10000)) =>
                /\ tasks[k].passed[s].fleet_size = fleet[k]
                /\ tasks[k].factor[s].num = tasks[k].factor[s].den
                /\ tasks[k].state = "done" =>
                      \A c \in PowerCols : tasks[k].result.scen[s][c] = RawTable(k, s)[c]

\* C4 witness: county_run has returned for a county of exactly 30,000 vehicles.
C4_Witness ==
    /\ script = "mp"
    /\ \E k \in Counties :
          /\ tasks[k].state = "done"
          /\ fleet[k] = 30000
          /\ tasks[k].result.scen[0]["home_l1"] = RawTable(k, 0)["home_l1"]

\* C5: a scenario whose requested fleet size is below 10,000 is passed on with
\* fleet size 10,000, its scale factor is the requested size over 10,000, and
\* each power column is the raw column times that factor; 5,000 vehicles give
\* the factor 0.5 and turn a raw home_l1 of 100, 200 into 50, 100.
C5_ScaledBelowNominal ==
    script = "mp" =>
        \A k \in Counties : \A s \in Scens :
            (tasks[k].state \in {"running", "done"} /\ fleet[k] < 10000) =>
                /\ tasks[k].passed[s].fleet_size = 10000
                /\ tasks[k].factor[s].num * 10000 = fleet[k] * tasks[k].factor[s].den
                /\ fleet[k] = 5000 => 2 * tasks[k].factor[s].num = tasks[k].factor[s].den
                /\ tasks[k].state = "done" =>
                      /\ \A c \in PowerCols : \A t \in 1 .. RawLen :
                            tasks[k].result.scen[s][c][t] * 10000 = RawTable(k, s)[c][t] * fleet[k]
                      /\ (fleet[k] = 5000 /\ RawTable(k, s)["home_l1"][1] = 100
                            /\ RawTable(k, s)["home_l1"][2] = 200) =>
                            /\ tasks[k].result.scen[s]["home_l1"][1] = 50
                            /\ tasks[k].result.scen[s]["home_l1"][2] = 100

\* C5 witness: the example of the claim has been computed.
C5_Witness ==
    /\ script = "mp"
    /\ tasks[0].state = "done"
    /\ fleet[0] = 5000
    /\ RawTable(0, 0)["home_l1"][1] = 100 /\ RawTable(0, 0)["home_l1"][2] = 200
    /\ tasks[0].result.scen[0]["home_l1"][1] = 50
    /\ tasks[0].result.scen[0]["home_l1"][2] = 100

\* C6: the credential of task i is pool[i mod n], the pool being the one built
\* from the key file and never changed afterwards; with the pool A, B the first
\* five tasks get A, B, A, B, A.
C6_RoundRobin ==
    (script = "mp" /\ pc \notin {"start", "keys", "exited", "crashed"}) =>
        /\ api_key_list = ReadKeys(FileLines(keyFile.text))
        /\ Len(api_key_list) >= 1
        /\ \A i \in Submitted : tasks[i].key = api_key_list[(i % Len(api_key_list)) + 1]
        /\ (api_key_list = << KeyA, KeyB >> /\ nSubmitted >= 5) =>
              << tasks[0].key, tasks[1].key, tasks[2].key, tasks[3].key, tasks[4].key >>
                  = << KeyA, KeyB, KeyA, KeyB, KeyA >>

\* C6 witness: five tasks were given A, B, A, B, A while an earlier task had
\* already finished.
C6_Witness ==
    /\ script = "mp"
    /\ api_key_list = << KeyA, KeyB >>
    /\ nSubmitted >= 5
    /\ tasks[0].state = "done"
    /\ tasks[4].state = "running"
    /\ tasks[3].key = KeyB /\ tasks[4].key = KeyA

\* C7: if the key file exists, none of its lines holds a text of 40 characters
\* (the line taken without the blanks and the line terminator around it, as the
\* code measures it) and the terminal supplies no valid key, the multi-key run
\* is aborted and no task is ever submitted.
C7_NoValidLineAborts ==
    (/\ script = "mp"
     /\ keyFile.exists
     /\ \A i \in DOMAIN FileLines(keyFile.text) : Len(Strip(FileLines(keyFile.text)[i])) # 40
     /\ stdin.eof \/ Len(stdin.line) # 40) =>
        /\ pc \in {"start", "keys", "exited", "crashed"}
        /\ nSubmitted = 0
        /\ Submitted = {}
        /\ usedKey = {}

\* C7 witness: a file of two bad lines, an invalid key typed, the run aborted.
C7_Witness ==
    /\ script = "mp"
    /\ keyFile = File(ShortKey \o NL \o LongKey \o NL)
    /\ ~stdin.eof
    /\ pc = "exited"
    /\ log[Len(log)].level = "CRITICAL"
    /\ nSubmitted = 0

\* C8: while a task is submitted or running the pool holds at least one
\* credential, all of 40 characters; the text of a file line is in the pool
\* exactly if it has 40 characters, and any other line is warned about; and in
\* the single-key scripts a key file that holds one 40-character key on a line
\* gives the credential of the external call.
C8_PoolOfValidKeys ==
    /\ (script = "mp" /\ Submitted # {}) =>
          /\ Len(api_key_list) >= 1
          /\ \A i \in DOMAIN api_key_list : Len(api_key_list[i]) = 40
    /\ (script = "mp" /\ keyFile.exists
          /\ pc \in {"assemble", "submit", "collect", "consume", "unwinding", "done"}) =>
          \A i \in DOMAIN FileLines(keyFile.text) :
              LET text == Strip(FileLines(keyFile.text)[i])
              IN /\ Len(text) = 40 <=> (\E j \in DOMAIN api_key_list : api_key_list[j] = text)
                 /\ Len(text) # 40 =>
                       \E j \in DOMAIN log : log[j].level = "WARNING" /\ log[j].arg = text
    /\ (/\ script \in {"single", "basic"}
        /\ keyFile.exists
        /\ Len(FileLines(keyFile.text)) = 1
        /\ Len(Strip(keyFile.text)) = 40
        /\ keyFile.text \in { Strip(keyFile.text), Strip(keyFile.text) \o NL }
        /\ pc \in {"assemble", "submit", "collect", "consume", "unwinding", "done", "run"}) =>
          /\ api_key = Strip(keyFile.text)
          /\ \A u \in usedKey : u = Strip(keyFile.text)

\* C9: a process that ends on a fatal configuration error has logged a critical
\* message last, ends with a non-zero status, has submitted no task, and has
\* created no directory when the input directory is missing.
C9_FatalExitNonZero ==
    (pc = "exited" \/ (pc = "crashed" /\ nSubmitted = 0)) =>
        /\ log # <<>> /\ log[Len(log)].level = "CRITICAL"
        /\ exitCode > 0
        /\ Submitted = {}
        /\ usedKey = {}
        /\ ~inputDirExists => ~dirsMade

\* C10: never more than 10 county_run tasks, nor more than 5 download_site
\* tasks, are running at once, however many work items were submitted.
C10_BoundedConcurrency ==
    /\ script \in {"mp", "single"} => Cardinality(Running) <= 10
    /\ script = "download" => Cardinality(Running) <= 5

\* C10 witness: ten tasks of the dispatcher are running and an eleventh work
\* item waits in the queue.
C10_Witness ==
    /\ script = "mp"
    /\ Cardinality(Running) = 10
    /\ Queued # {}
    /\ nSubmitted > 10

\* C11: under fair scheduling, once the dispatcher has assembled its inputs,
\* every work item is submitted and every task finishes; if no call fails the
\* run ends normally with every result consumed by the sink; a run never ends
\* normally with a task unfinished or a result unconsumed; and the only other
\* end of a run that has reached the dispatch is an abort on the exception of a
\* failed call.
C11_CompletesOrAborts ==
    /\ [](script \in {"mp", "single"} /\ pc = "done" =>
              /\ fails = {}
              /\ Submitted = Counties
              /\ \A k \in Counties : tasks[k].state = "done" /\ tasks[k].handed = 1
              /\ yieldq = <<>>)
    /\ [](script \in {"mp", "single"} /\ pc = "crashed" /\ nSubmitted > 0 =>
              \E k \in Counties : tasks[k].state = "failed")
    /\ (script \in {"mp", "single"} /\ pc = "submit") ~> (Finished = Counties)
    /\ (script \in {"mp", "single"} /\ pc = "submit" /\ fails = {}) ~>
          (pc = "done" /\ \A k \in Counties : tasks[k].handed = 1)
    /\ (script \in {"mp", "single"} /\ pc = "submit") ~> (pc \in {"done", "crashed"})

\* C11 witness: a run of the single-key dispatcher over three counties has ended
\* normally, the tasks having finished in the reverse of the submission order.
C11_Witness ==
    /\ script = "single"
    /\ pc = "done"
    /\ nCounties = 3
    /\ fails = {}
    /\ \A k \in Counties : tasks[k].state = "done" /\ tasks[k].handed = 1
    /\ files[<<"csv", 0, 0>>].of = 2 /\ files[<<"csv", 2, 0>>].of = 0

\* C12: when a run in which every task succeeded has ended, the result loop has
\* plotted one figure and saved one table for every pair of a county and a
\* scenario index; no file name was used twice; a name holds no blank and has
\* the form county, month (multi-key script), scen and the index, temp_gridLoad
\* and the extension, e.g. Albany_County_month12_scen0_temp_gridLoad.png.
C12_ArtifactNames ==
    (script \in {"mp", "single"} /\ pc = "done") =>
        LET plots == { i \in DOMAIN sinkLog : sinkLog[i].op = "plot" }
            saves == { i \in DOMAIN sinkLog : sinkLog[i].op = "save" }
        IN /\ \A c \in Counties : \A sc \in Scens :
                 /\ Cardinality({ i \in plots : sinkLog[i].county = c
                                                  /\ sinkLog[i].scenario = sc }) = 1
                 /\ Cardinality({ i \in saves : sinkLog[i].county = c
                                                  /\ sinkLog[i].scenario = sc }) = 1
           /\ \A i, j \in plots \cup saves : sinkLog[i].name = sinkLog[j].name => i = j
           /\ Cardinality({ sinkLog[i].name : i \in plots }) = nCounties * NumScen
           /\ Cardinality({ sinkLog[i].name : i \in saves }) = nCounties * NumScen
           /\ \A i \in plots \cup saves :
                 \A x \in DOMAIN sinkLog[i].name : sinkLog[i].name[x] # " "
           /\ \A i \in plots :
                 (sinkLog[i].county = 1 /\ sinkLog[i].scenario = 0) =>
                     sinkLog[i].name =
                         IF script = "mp"
                         THEN << "A", "l", "b", "a", "n", "y", "_", "C",
                                 "o", "u", "n", "t", "y", "_", "m", "o",
                                 "n", "t", "h", "1", "2", "_", "s", "c",
                                 "e", "n", "0", "_", "t", "e", "m", "p",
                                 "_", "g", "r", "i", "d", "L", "o", "a",
                                 "d", ".", "p", "n", "g" >>
                         ELSE << "A", "l", "b", "a", "n", "y", "_", "C",
                                 "o", "u", "n", "t", "y", "_", "s", "c",
                                 "e", "n", "0", "_", "t", "e", "m", "p",
                                 "_", "g", "r", "i", "d", "L", "o", "a",
                                 "d", ".", "p", "n", "g" >>
           /\ \A i \in saves :
                 (sinkLog[i].county = 1 /\ sinkLog[i].scenario = 1) =>
                     sinkLog[i].name =
                         IF script = "mp"
                         THEN << "A", "l", "b", "a", "n", "y", "_", "C",
                                 "o", "u", "n", "t", "y", "_", "m", "o",
                                 "n", "t", "h", "1", "2", "_", "s", "c",
                                 "e", "n", "1", "_", "t", "e", "m", "p",
                                 "_", "g", "r", "i", "d", "L", "o", "a",
                                 "d", ".", "c", "s", "v" >>
                         ELSE << "A", "l", "b", "a", "n", "y", "_", "C",
                                 "o", "u", "n", "t", "y", "_", "s", "c",
                                 "e", "n", "1", "_", "t", "e", "m", "p",
                                 "_", "g", "r", "i", "d", "L", "o", "a",
                                 "d", ".", "c", "s", "v" >>

\* C12 witness: a run of the multi-key script over three counties has ended
\* and has saved St_Lawrence_County_month12_scen1_temp_gridLoad.csv.
C12_Witness ==
    /\ script = "mp"
    /\ pc = "done"
    /\ nCounties = 3
    /\ \E i \in DOMAIN sinkLog :
          /\ sinkLog[i].op = "save"
          /\ sinkLog[i].name =
                 << "S", "t", "_", "L", "a", "w", "r", "e", "n", "c", "e",
                    "_", "C", "o", "u", "n", "t", "y", "_", "m", "o", "n",
                    "t", "h", "1", "2", "_", "s", "c", "e", "n", "1", "_",
                    "t", "e", "m", "p", "_", "g", "r", "i", "d", "L", "o",
                    "a", "d", ".", "c", "s", "v" >>

\* C13: if the vehicle table lacks the target year, or a county of the
\* temperature table, the run ends in the assembly: no task is ever submitted,
\* no worker thread started and the external model never called; and whenever a
\* task has been submitted, the tables of every county had been assembled and
\* saved.
C13_ConfigErrorBeforeDispatch ==
    script \in {"mp", "single"} =>
        /\ (~yearPresent \/ ~(Counties \subseteq DOMAIN fleet)) =>
              /\ pc \in {"start", "keys", "assemble", "exited", "crashed"}
              /\ nSubmitted = 0
              /\ Submitted = {}
              /\ numThreads = 0
              /\ usedKey = {}
              /\ sinkLog = <<>>
        /\ nSubmitted > 0 =>
              /\ DOMAIN scenario_csv_list = Counties
              /\ \A k \in Counties : <<"scenarios", k, 0>> \in DOMAIN files

\* C13 witness: the vehicle table lacks the second county; the process has
\* ended in the assembly, after the scenario file of the first county was saved.
C13_Witness ==
    /\ script = "mp"
    /\ yearPresent
    /\ 0 \in DOMAIN fleet
    /\ 1 \notin DOMAIN fleet
    /\ pc = "crashed"
    /\ exitCode = 1
    /\ DOMAIN files = { <<"scenarios", 0, 0>> }
    /\ nSubmitted = 0

\* C14: in what county_run returns, the time index and the column that is no
\* power are those of the external model's answer, in every scenario; a
\* scenario whose scale factor is 1.0 is the answer unchanged; the result
\* belongs to the county of the task; and a result, once returned, is not
\* changed by any later step of any thread.
C14_OnlyPowerColumnsScaled ==
    /\ [](script \in {"mp", "single"} =>
            \A k \in Counties :
                tasks[k].state = "done" =>
                    /\ tasks[k].result.of = k
                    /\ DOMAIN tasks[k].result.scen = Scens
                    /\ \A sc \in Scens :
                          /\ DOMAIN tasks[k].result.scen[sc] = Cols
                          /\ \A c \in Cols \ PowerCols :
                                tasks[k].result.scen[sc][c] = RawTable(k, sc)[c]
                          /\ tasks[k].factor[sc].num = tasks[k].factor[sc].den =>
                                tasks[k].result.scen[sc] = RawTable(k, sc))
    /\ [][\A k \in Counties :
              tasks[k].state = "done" =>
                  /\ tasks'[k].state = "done"
                  /\ tasks'[k].result = tasks[k].result]_vars

\* C14 witness: a county of 5,000 vehicles has its power halved and its other
\* columns as answered, and a county of 40,000 vehicles has the answer unchanged.
C14_Witness ==
    /\ script = "mp"
    /\ tasks[0].state = "done" /\ tasks[1].state = "done"
    /\ fleet[0] = 5000 /\ fleet[1] = 40000
    /\ tasks[0].result.scen[1]["home_l2"] # RawTable(0, 1)["home_l2"]
    /\ tasks[0].result.scen[1]["time"] = RawTable(0, 1)["time"]
    /\ tasks[0].result.scen[1]["temp_c"] = RawTable(0, 1)["temp_c"]
    /\ tasks[1].result.scen = RawResult(1)

\* C15 as stated: every row passed to temp_run by the multi-key county_run has
\* a fleet size of at least 10,000, and differs from the requested one only if
\* that was below 10,000.
C15_ChangedOnlyBelowFloor ==
    script = "mp" =>
        \A k \in Counties : \A sc \in Scens :
            tasks[k].state \in {"running", "done", "failed"} =>
                /\ tasks[k].passed[sc].fleet_size >= 10000
                /\ tasks[k].passed[sc].fleet_size # fleet[k] => fleet[k] < 10000

\* C15 as amended: every row passed to temp_run by the multi-key county_run
\* has a fleet size of at least 10,000, and differs from the requested one only
\* if that was below 30,000, in which case it is 10,000.
C15_ChangedOnlyBelowThreshold ==
    script = "mp" =>
        \A k \in Counties : \A sc \in Scens :
            tasks[k].state \in {"running", "done", "failed"} =>
                /\ tasks[k].passed[sc].fleet_size >= 10000
                /\ tasks[k].passed[sc].fleet_size # fleet[k] =>
                      (fleet[k] < 30000 /\ tasks[k].passed[sc].fleet_size = 10000)
                /\ fleet[k] >= 30000 => tasks[k].passed[sc].fleet_size = fleet[k]

\* C15 witness: a county of 20,000 vehicles is passed to temp_run as 10,000, and
\* a county of 5,000 vehicles as well.
C15_Witness ==
    /\ script = "mp"
    /\ tasks[0].state = "running" /\ tasks[1].state = "running"
    /\ fleet[0] = 5000 /\ fleet[1] = 20000
    /\ tasks[0].passed[0].fleet_size = 10000
    /\ tasks[1].passed[1].fleet_size = 10000

\* C16: the urls are those of the odd ids 1, 3, ..., 123; the downloader makes
\* at most one request per url and, when it has ended, exactly one; a request
\* that failed left no file and no record, a request that succeeded left the
\* file {id}.xlsx, whatever the other requests did; and the downloader ends
\* normally.
C16_OneRequestPerId ==
    script = "download" =>
        /\ { SiteId(k) : k \in 0 .. (NumUrls - 1) } = { i \in 1 .. 123 : i % 2 = 1 }
        /\ \A k \in Counties : SiteId(k) % 2 = 1 /\ SiteId(k) = 1 + 2 * k
        /\ pc \in {"start", "submit", "shutdown", "done"}
        /\ exitCode \in {-1, 0}
        /\ log = <<>>
        /\ \A k \in Counties :
              /\ tasks[k].calls = IF tasks[k].state \in {"running", "done", "failed"} THEN 1 ELSE 0
              /\ (<<"xlsx", SiteId(k), 0>> \in DOMAIN files) <=> tasks[k].state = "done"
              /\ tasks[k].state = "done" =>
                    files[<<"xlsx", SiteId(k), 0>>].name = Str(2 * k + 1) \o << ".", "x", "l", "s", "x" >>
              /\ tasks[k].state = "failed" <=> (k \in fails /\ tasks[k].calls = 1
                                                  /\ tasks[k].state # "running")
        /\ (\A n \in DOMAIN files : n[1] = "xlsx" /\ n[2] % 2 = 1 /\ files[n].of \notin fails)
        /\ pc = "done" =>
              /\ exitCode = 0
              /\ \A k \in Counties :
                    /\ tasks[k].calls = 1
                    /\ tasks[k].state = IF k \in fails THEN "failed" ELSE "done"
              /\ (1 \in Counties /\ 1 \notin fails) =>
                    files[<<"xlsx", 3, 0>>].name = << "3", ".", "x", "l", "s", "x" >>

\* C16 witness: of three requests the second has failed; the downloader has
\* ended normally with the files of the ids 1 and 5 and none of the id 3.
C16_Witness ==
    /\ script = "download"
    /\ nCounties = 3
    /\ fails = {1}
    /\ pc = "done"
    /\ exitCode = 0
    /\ DOMAIN files = { <<"xlsx", 1, 0>>, <<"xlsx", 5, 0>> }
    /\ files[<<"xlsx", 5, 0>>].name = << "5", ".", "x", "l", "s", "x" >>

\* C17: two download tasks that are running never use the same session; a task
\* uses the session of the thread that runs it; no two threads have the same
\* session; there are never more than 5 sessions; and the session of a thread,
\* once created, is never replaced.
C17_SessionPerThread ==
    /\ [](script = "download" =>
            /\ \A j, k \in Running : tasks[j].session = tasks[k].session => j = k
            /\ \A k \in Counties :
                  tasks[k].state \in {"running", "done", "failed"} =>
                      /\ tasks[k].thread \in 1 .. numThreads
                      /\ tasks[k].session # 0
                      /\ tasks[k].session = session[tasks[k].thread]
            /\ \A t, u \in DOMAIN session :
                  (session[t] # 0 /\ session[t] = session[u]) => t = u
            /\ Cardinality({ t \in DOMAIN session : session[t] # 0 }) <= 5
            /\ Cardinality({ tasks[k].session : k \in Submitted } \ {0}) <= 5)
    /\ [][script = "download" =>
              \A t \in DOMAIN session : session[t] # 0 => session'[t] = session[t]]_vars

\* C17 witness: five download tasks are running, each with its own session, and
\* one of them uses the session its thread created for an earlier task.
C17_Witness ==
    /\ script = "download"
    /\ Cardinality(Running) = 5
    /\ Cardinality({ tasks[k].session : k \in Running }) = 5
    /\ \E j \in Finished : \E k \in Running :
          /\ tasks[j].thread = tasks[k].thread
          /\ tasks[j].session = tasks[k].session

\* C18: whenever the result loop has taken the scenario table of a county to
\* plot and save, the task of that county had finished.
C18_ReadAfterCompletion ==
    \A i \in DOMAIN sinkLog :
        sinkLog[i].op = "read" => sinkLog[i].task \in {"done", "failed"}

\* C19 as stated: of the calls of the external model in flight, at most
\* ceil(10 / n) use the same credential, n being the size of the pool.
C19_EvenLoad ==
    (script = "mp" /\ Submitted # {}) =>
        \A x \in DOMAIN api_key_list :
            Cardinality({ k \in Running : tasks[k].key = api_key_list[x] })
                <= (10 + Len(api_key_list) - 1) \div Len(api_key_list)

\* C19 as amended: of the calls in flight, at most ceil(N / n) use the same
\* credential, N being the number of work items, and at most 10; while no more
\* than 10 work items have been submitted, at most ceil(10 / n).
C19_LoadWithinShare ==
    (script = "mp" /\ Submitted # {}) =>
        \A x \in DOMAIN api_key_list :
            LET inflight == Cardinality({ k \in Running : tasks[k].key = api_key_list[x] })
                n == Len(api_key_list)
            IN /\ inflight <= (nCounties + n - 1) \div n
               /\ inflight <= 10
               /\ nSubmitted <= 10 => inflight <= (10 + n - 1) \div n

\* C19 witness: with a pool of two keys, six calls in flight use the first key:
\* a task with the second key has finished and the eleventh task has taken its
\* worker.
C19_Witness ==
    /\ script = "mp"
    /\ api_key_list = << KeyA, KeyB >>
    /\ nCounties > 10
    /\ tasks[10].state = "running"
    /\ Cardinality({ k \in Running : tasks[k].key = KeyA }) = 6
    /\ \E k \in Finished : tasks[k].key = KeyB

====
